---- MODULE Spec2Model ----
(***************************************************************************)
(* BoidRs (src/main.rs): the Bevy systems that steer, move and wrap the    *)
(* boids, as a state machine.  One action per system; a frame (tick) runs  *)
(* every system registered in main() once, in the order the scheduler      *)
(* happens to pick, and then applies the queued spawn commands.            *)
(*                                                                         *)
(* f32 values are fixed-point integers: a direction component is in units  *)
(* of 1/One, a position component in units of 1/PosScale, the frame time   *)
(* in units of 1/TicksPerSecond s and a strength in units of 1/Milli.      *)
(* A Vec2 carries a nan flag: glam's normalize() of the zero vector is     *)
(* (NaN, NaN), and NaN spreads through every later operation.              *)
(*                                                                         *)
(* main() gives the systems no order (add_system without before/after), so *)
(* within a frame any system that has not run yet may run next.  The k-d   *)
(* tree is refreshed by the AutomaticUpdate plugin on a timer of its own:  *)
(* at most once in a frame, at any point of it.  The keys and the mouse    *)
(* are read by one system each, and the model draws them where they are    *)
(* read.  rotate_boid_sprite_system only writes transform.rotation, which  *)
(* no system reads; it is left out.                                        *)
(***************************************************************************)
EXTENDS Integers, Sequences, FiniteSets

VARIABLES
    translation,       \* entity -> transform.translation.xy()
    direction,         \* entity -> boid.direction
    tree,              \* the k-d tree: entity -> the position it is indexed at
    pending,           \* the spawn commands queued in this frame
    delta,             \* time.delta_seconds() of this frame
    keys,              \* the keys rotate_boid_manual_system found pressed
    ran,               \* the systems that have run in this frame
    tick,              \* the number of the frame
    panicked,          \* a system has panicked: the app is gone
    startTranslation,  \* translation when the frame began
    startDirection     \* direction when the frame began

vars == <<translation, direction, tree, pending, delta, keys, ran, tick,
          panicked, startTranslation, startDirection>>

-----------------------------------------------------------------------------
(* Resolution of the fixed-point numbers *)
One == 1000
PosScale == 10
Milli == 1000
TicksPerSecond == 60

(* Bounds of the model: the frames a run is followed for, and the boids a
   run from the empty world spawns *)
MaxTicks == 3
MaxBoids == 1

(* Program constants *)
MANUAL_ROTATION_STRENGTH == 1000
COHESION_STRENGTH == 200
ALINGMENT_STRENGTH == 200
SEPARATION_STRENGTH == 200
speed == 20
rotation_speed == 3
view_distance == 50
separation_distance == 20

(* The window and the frame times (0 s and 0.1 s) the model draws from *)
WindowWidth == 100 * PosScale
WindowHeight == 40 * PosScale
DeltaTimes == {0, 6}

-----------------------------------------------------------------------------
(* Vec2 *)
V(x, y) == [x |-> x, y |-> y, nan |-> FALSE]
NaNVec == [x |-> 0, y |-> 0, nan |-> TRUE]
ZERO == V(0, 0)

IsZero(v) == ~v.nan /\ v.x = 0 /\ v.y = 0

Abs(n) == IF n < 0 THEN -n ELSE n

\* a / b rounded to the nearest integer (b > 0)
RDiv(a, b) == IF a >= 0 THEN (2 * a + b) \div (2 * b)
                        ELSE -((2 * (-a) + b) \div (2 * b))

RECURSIVE SqrtSearch(_, _, _)
SqrtSearch(n, lo, hi) ==
    IF lo >= hi THEN lo
    ELSE LET mid == (lo + hi + 1) \div 2
         IN  IF mid * mid <= n THEN SqrtSearch(n, mid, hi)
                               ELSE SqrtSearch(n, lo, mid - 1)

ISqrt(n) == SqrtSearch(n, 0, 46340)

add(a, b) == IF a.nan \/ b.nan THEN NaNVec ELSE V(a.x + b.x, a.y + b.y)
sub(a, b) == IF a.nan \/ b.nan THEN NaNVec ELSE V(a.x - b.x, a.y - b.y)
neg(a) == IF a.nan THEN NaNVec ELSE V(-a.x, -a.y)
perp(a) == IF a.nan THEN NaNVec ELSE V(-a.y, a.x)

\* Vec2 / f32, the divisor a count n >= 1
div(a, n) == IF a.nan THEN NaNVec ELSE V(RDiv(a.x, n), RDiv(a.y, n))

LengthSquared(a) == a.x * a.x + a.y * a.y

\* Vec2::normalize: self * (1 / length); the zero vector gives NaN.  The
\* length is taken with two, one or no further decimal digits, as many as
\* fit the integers
normalize(a) ==
    IF a.nan \/ IsZero(a) THEN NaNVec
    ELSE LET l2 == LengthSquared(a)
             digits == IF l2 < 200000 THEN 100 ELSE IF l2 < 20000000 THEN 10 ELSE 1
             l == ISqrt(l2 * digits * digits)
         IN  V(RDiv(a.x * One * digits, l), RDiv(a.y * One * digits, l))

\* Vec2::lerp: self + (rhs - self) * s, s in 1/Milli
lerp(a, b, s) ==
    IF a.nan \/ b.nan THEN NaNVec
    ELSE V(a.x + RDiv((b.x - a.x) * s, Milli), a.y + RDiv((b.y - a.y) * s, Milli))

\* a direction of length 1 up to the rounding of the last digit
UnitTolerance == 4 * One
IsUnit(v) == /\ ~v.nan
             /\ Abs(LengthSquared(v) - One * One) <= UnitTolerance

-----------------------------------------------------------------------------
(* main.rs helpers *)

\* fn rotate_boid_direction: the new boid.direction
rotate_boid_direction(dir, target_vector, strength) ==
    normalize(lerp(dir, normalize(target_vector), strength))

\* boid.rotation_speed * time.delta_seconds() * WEIGHT
Strength(weight) == (rotation_speed * delta * weight) \div TicksPerSecond

Boids == 1 .. Len(translation)

\* treeaccess.within_distance(point, distance): the indexed entities in
\* range (no comparison with a NaN coordinate is true)
within_distance(point, distance) ==
    IF point.nan THEN {}
    ELSE { e \in 1 .. Len(tree) :
             /\ ~tree[e].nan
             /\ LengthSquared(sub(tree[e], point))
                  <= (distance * PosScale) * (distance * PosScale) }

RECURSIVE SumOver(_, _)
\* the fold of Vec2 additions over the entities of S; f maps an entity to a Vec2
SumOver(f, S) ==
    IF S = {} THEN ZERO
    ELSE LET e == CHOOSE x \in S : TRUE
         IN  add(f[e], SumOver(f, S \ {e}))

-----------------------------------------------------------------------------
(* The systems main() registers, and the plugin that refreshes the k-d tree *)
RuleSystems == {"boid_separation_system", "boid_alignment_system",
                "boid_cohesion_system"}
Systems == RuleSystems \cup {"spawn_boid", "move_boid_system",
                             "rotate_boid_manual_system", "avoid_walls_system"}
UpdateTree == "update_tree"

\* a system runs once per frame: it can start when it has not run yet
CanRun(s) == ~panicked /\ s \notin ran

\* a frame that ends as soon as the three rules have run
FrameComplete_RulesOnly == RuleSystems \subseteq ran

\* the frame is over when every registered system has run; the tree refresh
\* is on a timer of its own and is not guaranteed to fire in a frame
FrameComplete == Systems \subseteq ran

KeySets == {{}, {"Left"}, {"Right"}}
CursorPositions == {V(1 * PosScale, 10 * PosScale), V(10 * PosScale, 10 * PosScale)}
\* Vec2::from_angle of some angles in [0, 360)
Directions == {V(-One, 0), V(0, One)}

TypeOK == /\ Len(translation) = Len(direction)
          /\ Len(tree) <= Len(translation)
          /\ ran \subseteq Systems \cup {UpdateTree}
          /\ tick \in 1 .. MaxTicks
          /\ delta \in DeltaTimes
          /\ keys \in KeySets
          /\ panicked \in BOOLEAN

\* what one click spawns: Boid { direction: get_random_direction(), .. } at
\* the cursor
SpawnChoices == [translation : CursorPositions, direction : Directions]

\* The flocks a run may start its last frame with: two boids spawned by
\* clicks in earlier frames whose delta time was 0 (so that the first has not
\* moved), the first already in the tree and the second spawned at the end of
\* the frame before.
Scenes == [1 .. 2 -> SpawnChoices]

\* A run starts either from the empty world App::new() builds, in frame 1, or
\* from a scene, in the last frame the model follows.
Init == /\ \/ /\ translation = <<>>
              /\ direction = <<>>
              /\ tree = <<>>
              /\ tick = 1
           \/ \E w \in Scenes :
                 /\ translation = [k \in 1 .. Len(w) |-> w[k].translation]
                 /\ direction = [k \in 1 .. Len(w) |-> w[k].direction]
                 /\ tree = <<w[1].translation>>
                 /\ tick = MaxTicks
        /\ pending = <<>>
        /\ delta \in DeltaTimes
        /\ keys = {}
        /\ ran = {}
        /\ panicked = FALSE
        /\ startTranslation = translation
        /\ startDirection = direction

Mark(s) == ran' = ran \cup {s}

-----------------------------------------------------------------------------
\* AutomaticUpdate<Boid>: the tree is rebuilt from the Transform of every Boid
update_tree ==
    /\ CanRun(UpdateTree)
    /\ tree' = translation
    /\ Mark(UpdateTree)
    /\ UNCHANGED <<translation, direction, pending, delta, keys, tick,
                   panicked, startTranslation, startDirection>>

\* fn spawn_boid: on a released left button with the cursor in the window,
\* queue the spawn of a boid at the cursor with a random direction
spawn_boid ==
    /\ CanRun("spawn_boid")
    /\ \/ pending' = pending
       \/ /\ Len(translation) + Len(pending) < MaxBoids
          /\ \E mouse_pos \in CursorPositions, dir \in Directions :
                pending' = Append(pending, [translation |-> mouse_pos,
                                            direction |-> dir])
    /\ Mark("spawn_boid")
    /\ UNCHANGED <<translation, direction, tree, delta, keys, tick,
                   panicked, startTranslation, startDirection>>

-----------------------------------------------------------------------------
\* boid_separation_system, the body of the loop for entity a
SeparationTarget(a) ==
    LET others == within_distance(translation[a], separation_distance) \ {a}
        vec_from_boid == [e \in others |-> sub(tree[e], translation[a])]
        summed_vec_to_neighbors == SumOver(vec_from_boid, others)
    IN  normalize(neg(div(summed_vec_to_neighbors, Cardinality(others))))

SeparationSkips(a) ==
    Cardinality(within_distance(translation[a], separation_distance)) <= 1

SeparationOne(a) ==
    IF SeparationSkips(a) THEN direction[a]
    ELSE rotate_boid_direction(direction[a], SeparationTarget(a),
                               Strength(SEPARATION_STRENGTH))

boid_separation_system ==
    /\ CanRun("boid_separation_system")
    /\ direction' = [a \in Boids |-> SeparationOne(a)]
    /\ Mark("boid_separation_system")
    /\ UNCHANGED <<translation, tree, pending, delta, keys, tick,
                   panicked, startTranslation, startDirection>>

-----------------------------------------------------------------------------
\* the neighbour's heading read from the live store instead of the map
NeighborDirection_Live(dirs, direction_map, e) == dirs[e]

\* the heading boid_alignment_system reads for neighbour e: the entry of
\* direction_map, collected before the loop (dirs is the live store)
NeighborDirection(dirs, direction_map, e) == direction_map[e]

AlignmentOthers(a) == within_distance(translation[a], view_distance) \ {a}

AlignmentTarget(dirs, direction_map, a) ==
    LET others == AlignmentOthers(a)
        read == [e \in others |-> NeighborDirection(dirs, direction_map, e)]
    IN  div(SumOver(read, others), Cardinality(others))

AlignmentOne(dirs, direction_map, a) ==
    IF AlignmentOthers(a) = {} THEN dirs[a]
    ELSE rotate_boid_direction(dirs[a], AlignmentTarget(dirs, direction_map, a),
                               Strength(ALINGMENT_STRENGTH))

RECURSIVE AlignmentLoop(_, _, _)
\* for (transform, mut boid, entity) in boid_query.iter_mut(), from entity a on
AlignmentLoop(dirs, direction_map, a) ==
    IF a > Len(dirs) THEN dirs
    ELSE AlignmentLoop([dirs EXCEPT ![a] = AlignmentOne(dirs, direction_map, a)],
                       direction_map, a + 1)

boid_alignment_system ==
    /\ CanRun("boid_alignment_system")
    /\ direction' = AlignmentLoop(direction, direction, 1)
    /\ Mark("boid_alignment_system")
    /\ UNCHANGED <<translation, tree, pending, delta, keys, tick,
                   panicked, startTranslation, startDirection>>

-----------------------------------------------------------------------------
\* fn calculate_average_point.  point_list.len() - 1 is a usize subtraction:
\* on an empty list it panics when overflow checks are on, and wraps to
\* usize::MAX when they are off, where the (zero) sum divided by it is zero
AveragePointPanics(point_list, overflow_checks) ==
    overflow_checks /\ Cardinality(point_list) = 0

calculate_average_point(point_list, ignore) ==
    LET average_point == SumOver(tree, point_list \ {ignore})
        len == Cardinality(point_list)
    IN  IF len = 0 THEN ZERO
        ELSE IF len - 1 = 0 THEN ZERO
        ELSE div(average_point, len - 1)

CohesionTarget(a) ==
    sub(calculate_average_point(within_distance(translation[a], view_distance), a),
        translation[a])

CohesionSkips(a) ==
    calculate_average_point(within_distance(translation[a], view_distance), a) = ZERO

CohesionOne(a) ==
    IF CohesionSkips(a) THEN direction[a]
    ELSE rotate_boid_direction(direction[a], CohesionTarget(a),
                               Strength(COHESION_STRENGTH))

\* the entities whose loop body panics
CohesionPanicking(overflow_checks) ==
    { a \in Boids :
        AveragePointPanics(within_distance(translation[a], view_distance),
                           overflow_checks) }

boid_cohesion_system ==
    /\ CanRun("boid_cohesion_system")
    /\ \E overflow_checks \in BOOLEAN :
          LET bad == CohesionPanicking(overflow_checks)
              stop == IF bad = {} THEN Len(direction) + 1
                      ELSE CHOOSE a \in bad : \A b \in bad : a <= b
          IN  /\ panicked' = (bad # {})
              /\ direction' = [a \in Boids |->
                                 IF a < stop THEN CohesionOne(a) ELSE direction[a]]
    /\ Mark("boid_cohesion_system")
    /\ UNCHANGED <<translation, tree, pending, delta, keys, tick,
                   startTranslation, startDirection>>

-----------------------------------------------------------------------------
\* rotate_boid_manual_system, the target for one boid; the loop breaks at
\* the first boid when neither key is pressed
\* a loop without the break: it steers whatever the keys
ManualSteers_Always(pressed) == TRUE

ManualSteers(pressed) == "Left" \in pressed \/ "Right" \in pressed

ManualTarget(dir, pressed) ==
    IF "Left" \in pressed THEN perp(dir) ELSE neg(perp(dir))

ManualOne(dir, pressed) ==
    IF ManualSteers(pressed)
    THEN rotate_boid_direction(dir, ManualTarget(dir, pressed),
                               Strength(MANUAL_ROTATION_STRENGTH))
    ELSE dir

rotate_boid_manual_system ==
    /\ CanRun("rotate_boid_manual_system")
    /\ \E pressed \in KeySets :
          /\ keys' = pressed
          /\ direction' = [a \in Boids |-> ManualOne(direction[a], pressed)]
    /\ Mark("rotate_boid_manual_system")
    /\ UNCHANGED <<translation, tree, pending, delta, tick,
                   panicked, startTranslation, startDirection>>

-----------------------------------------------------------------------------
\* move_boid_system: translation += direction.normalize() * speed * delta
MoveOne(pos, dir) ==
    LET n == normalize(dir)
    IN  IF n.nan THEN NaNVec
        ELSE add(pos, V(RDiv(n.x * speed * PosScale * delta, TicksPerSecond * One),
                        RDiv(n.y * speed * PosScale * delta, TicksPerSecond * One)))

move_boid_system ==
    /\ CanRun("move_boid_system")
    /\ translation' = [a \in Boids |-> MoveOne(translation[a], direction[a])]
    /\ Mark("move_boid_system")
    /\ UNCHANGED <<direction, tree, pending, delta, keys, tick,
                   panicked, startTranslation, startDirection>>

-----------------------------------------------------------------------------
\* the wrap with the comparisons taken inclusive
WrapCoordinate_Inclusive(c, extent) ==
    IF c <= 0 THEN extent ELSE IF c >= extent THEN 0 ELSE c

\* avoid_walls_system, one coordinate against the window's extent
WrapCoordinate(c, extent) ==
    IF c < 0 THEN extent ELSE IF c > extent THEN 0 ELSE c

\* every comparison with NaN is false: a NaN coordinate stays
WrapOne(pos) ==
    IF pos.nan THEN pos
    ELSE V(WrapCoordinate(pos.x, WindowWidth), WrapCoordinate(pos.y, WindowHeight))

avoid_walls_system ==
    /\ CanRun("avoid_walls_system")
    /\ translation' = [a \in Boids |-> WrapOne(translation[a])]
    /\ Mark("avoid_walls_system")
    /\ UNCHANGED <<direction, tree, pending, delta, keys, tick,
                   panicked, startTranslation, startDirection>>

-----------------------------------------------------------------------------
\* the end of the frame: the queued spawn commands are applied, and the next
\* frame starts with its own delta time
EndFrame ==
    /\ ~panicked
    /\ FrameComplete
    /\ tick < MaxTicks
    /\ translation' = translation \o [k \in 1 .. Len(pending) |-> pending[k].translation]
    /\ direction' = direction \o [k \in 1 .. Len(pending) |-> pending[k].direction]
    /\ pending' = <<>>
    /\ delta' \in DeltaTimes
    /\ keys' = {}
    /\ ran' = {}
    /\ tick' = tick + 1
    /\ startTranslation' = translation'
    /\ startDirection' = direction'
    /\ UNCHANGED <<tree, panicked>>

Next == \/ update_tree
        \/ spawn_boid
        \/ boid_separation_system
        \/ boid_alignment_system
        \/ boid_cohesion_system
        \/ rotate_boid_manual_system
        \/ move_boid_system
        \/ avoid_walls_system
        \/ EndFrame

Spec == Init /\ [][Next]_vars

-----------------------------------------------------------------------------
(* What the claims speak of *)

\* system s runs in this step
Started(s) == s \notin ran /\ s \in ran'

\* the order of a frame's steps that C1 states
FixedOrder == <<"update_tree", "boid_separation_system", "boid_alignment_system",
                "boid_cohesion_system", "rotate_boid_manual_system",
                "move_boid_system", "avoid_walls_system">>
Ordered == { FixedOrder[i] : i \in 1 .. Len(FixedOrder) }

InBounds(pos) == /\ ~pos.nan
                 /\ 0 <= pos.x /\ pos.x <= WindowWidth
                 /\ 0 <= pos.y /\ pos.y <= WindowHeight

\* a target that is neither the zero vector nor undefined
Proper(v) == ~v.nan /\ ~IsZero(v)

\* the entities other than a that the query at a's view radius returns
ViewOthers(a) == within_distance(translation[a], view_distance) \ {a}

\* the arithmetic mean of the indexed positions of the entities of S
MeanPosition(S) == div(SumOver(tree, S), Cardinality(S))

-----------------------------------------------------------------------------
-----------------------------------------------------------------------------
\* C2: in every reachable state every boid's direction is a unit vector,
\* never the zero or an undefined vector.
C2_DirectionIsUnit ==
    \A a \in 1 .. Len(direction) : IsUnit(direction[a])

\* every direction that is defined is a unit vector: only NaN breaks C2
DefinedDirectionIsUnit ==
    \A a \in 1 .. Len(direction) : direction[a].nan \/ IsUnit(direction[a])

-----------------------------------------------------------------------------
\* C3: for a boid whose query at its view radius returns no entity other than
\* itself (the empty result included), boid_cohesion_system and
\* boid_alignment_system complete normally and leave its direction unchanged.
C3_NoNeighborsNoChange ==
    [][ (Started("boid_cohesion_system") \/ Started("boid_alignment_system")) =>
            /\ ~panicked'
            /\ \A a \in Boids :
                  ViewOthers(a) = {} => direction'[a] = direction[a] ]_vars

-----------------------------------------------------------------------------
\* C4: avoid_walls_system maps x < 0 to the width, x > width to 0 and leaves
\* any other x, and likewise y against the height; after it every position is
\* within the window, and a position within the window is left as it is.
C4_WrapIntoBounds ==
    [][ Started("avoid_walls_system") =>
          \A a \in Boids :
             LET p == translation[a]
                 q == translation'[a]
             IN  /\ q.x = (IF p.x < 0 THEN WindowWidth
                           ELSE IF p.x > WindowWidth THEN 0 ELSE p.x)
                 /\ q.y = (IF p.y < 0 THEN WindowHeight
                           ELSE IF p.y > WindowHeight THEN 0 ELSE p.y)
                 /\ InBounds(q)
                 /\ InBounds(p) => q = p ]_vars

\* the same for the positions that are defined: only NaN breaks C4
C4_WrapDefinedIntoBounds ==
    [][ Started("avoid_walls_system") =>
          \A a \in Boids :
             LET p == translation[a]
                 q == translation'[a]
             IN  ~p.nan =>
                 /\ q.x = (IF p.x < 0 THEN WindowWidth
                           ELSE IF p.x > WindowWidth THEN 0 ELSE p.x)
                 /\ q.y = (IF p.y < 0 THEN WindowHeight
                           ELSE IF p.y > WindowHeight THEN 0 ELSE p.y)
                 /\ InBounds(q)
                 /\ InBounds(p) => q = p ]_vars

-----------------------------------------------------------------------------
\* C5 (as stated): avoid_walls_system moves a boid at exactly (width, y), y
\* within the window, to (0, y).
C5_WidthWrapsToZero ==
    [][ Started("avoid_walls_system") =>
          \A a \in Boids :
             (InBounds(translation[a]) /\ translation[a].x = WindowWidth) =>
                 translation'[a] = V(0, translation[a].y) ]_vars

\* C5 (amended): avoid_walls_system leaves a boid at exactly (width, y), y
\* within the window, at (width, y), and applying it again changes nothing.
C5_WidthStays ==
    [][ Started("avoid_walls_system") =>
          \A a \in Boids :
             (InBounds(translation[a]) /\ translation[a].x = WindowWidth) =>
                 /\ translation'[a] = translation[a]
                 /\ WrapOne(translation'[a]) = translation'[a] ]_vars

\* the wrap has run on a boid that started the frame at x = width
C5_Witness ==
    /\ "avoid_walls_system" \in ran
    /\ "move_boid_system" \notin ran
    /\ \E a \in Boids : /\ InBounds(startTranslation[a])
                        /\ startTranslation[a].x = WindowWidth
                        /\ translation[a] = startTranslation[a]

-----------------------------------------------------------------------------
\* C6: a frame whose delta time is <= 0 is a no-op: once all its systems have
\* run, every position and direction is what it was when the frame began.
C6_ZeroDeltaIsNoOp ==
    (delta <= 0 /\ Systems \subseteq ran) =>
        /\ translation = startTranslation
        /\ direction = startDirection

\* the same for the frames in which no direction is undefined
ZeroDeltaIsNoOpWhenDefined ==
    (delta <= 0 /\ Systems \subseteq ran
       /\ \A a \in 1 .. Len(direction) : ~direction[a].nan) =>
        /\ translation = startTranslation
        /\ direction = startDirection

-----------------------------------------------------------------------------
\* C7: with neither Left nor Right pressed rotate_boid_manual_system changes
\* no direction (and nothing else of the flock), so the run is the run
\* without the system.
C7_NoKeyNoSteering ==
    [][ (Started("rotate_boid_manual_system") /\ keys' = {}) =>
            UNCHANGED <<translation, direction, tree, pending>> ]_vars

\* the system has run on a flock with no key pressed
C7_Witness ==
    /\ "rotate_boid_manual_system" \in ran
    /\ keys = {}
    /\ delta > 0
    /\ Len(direction) > 0

-----------------------------------------------------------------------------
-----------------------------------------------------------------------------
\* C9: whenever a rule calls rotate_boid_direction, the target it passes is
\* not the zero vector (nor undefined).
C9_TargetNeverZero ==
    [][ \A a \in Boids :
          /\ (Started("boid_separation_system") /\ ~SeparationSkips(a)) =>
                 Proper(SeparationTarget(a))
          /\ (Started("boid_alignment_system") /\ ViewOthers(a) # {}) =>
                 Proper(AlignmentTarget(direction, direction, a))
          /\ (Started("boid_cohesion_system") /\ ~panicked' /\ ~CohesionSkips(a)) =>
                 Proper(CohesionTarget(a)) ]_vars

-----------------------------------------------------------------------------
\* C10: for a boid with at least one other entity in its view query,
\* boid_cohesion_system blends towards (mean position of the others) - (its
\* own position), the mean taken over the number of the others.  (Stated for
\* the targets one can blend towards; the zero target is C9's.)
C10_CohesionTowardsMean ==
    [][ (Started("boid_cohesion_system") /\ ~panicked') =>
          \A a \in Boids :
             (/\ ViewOthers(a) # {}
              /\ Proper(sub(MeanPosition(ViewOthers(a)), translation[a]))) =>
                direction'[a] =
                    rotate_boid_direction(
                        direction[a],
                        sub(MeanPosition(ViewOthers(a)), translation[a]),
                        Strength(COHESION_STRENGTH)) ]_vars

====
